---- MODULE Spec2Model ----
(***************************************************************************)
(* Student-proposing deferred acceptance (src/tips/deferred_acceptance.py) *)
(* as a state machine: one action per iteration of the round loop, one for *)
(* the return of the Matching, one for the stability auditor.              *)
(***************************************************************************)
EXTENDS Integers, Sequences, FiniteSets, TLC

\* ---------------------------------------------------------------- bounds
NumStudents == 2
NumSchools == 2
MaxPrefLen == 2
MaxCapacity == 2

StudentIds == 1..NumStudents
SchoolIds == 1..NumSchools
\* an id that names no supplied school / no supplied student
DanglingSchool == NumSchools + 1
DanglingStudent == NumStudents + 1
\* capacity is an unvalidated int: -1 stands for the negative ones
Capacities == (0 - 1)..MaxCapacity

None == "None"

VARIABLES
    student_index,  \* id -> [id, preferences, best_unrejected]
    school_index,   \* id -> [id, preferences, capacity, held]
    to_apply,       \* set of student ids that propose in the next round
    unassigned,     \* set of student ids whose cursor is exhausted
    pc,             \* "loop" | "done" | "error" | "audited"
    rounds,         \* number of calls of run_round so far
    last,           \* what the last round did (proposers, pools, rejections)
    raised,         \* the exception that ended the run, or None
    matching,       \* the Matching handed to the caller / to the auditor
    pair,           \* outcome of find_unstable_pair
    proposals,      \* history: student id -> the school ids it proposed to, in order
    rejected_by,    \* history: student id -> the school ids that rejected it
    design          \* the block-design computation (bibd.py), see SpecBibd

vars == <<student_index, school_index, to_apply, unassigned, pc, rounds, last,
          raised, matching, pair, proposals, rejected_by, design>>

\* ------------------------------------------------------- list primitives
Range(L) == {L[i] : i \in 1..Len(L)}

\* list.index: position (0-based) of the first occurrence; callers must
\* test membership first, the absent case being Python's ValueError
index(L, x) == (CHOOSE i \in 1..Len(L) : L[i] = x /\ \A j \in 1..(i - 1) : L[j] # x) - 1

NoDup(L) == \A i, j \in 1..Len(L) : i # j => L[i] # L[j]

SeqsUpTo(S, n) == UNION {[1..k -> S] : k \in 0..n}

\* every iteration order of a set
Orders(S) == {f \in [1..Cardinality(S) -> S] : \A i, j \in 1..Cardinality(S) : i # j => f[i] # f[j]}

RemoveAt(L, i) == SubSeq(L, 1, i - 1) \o SubSeq(L, i + 1, Len(L))

\* ------------------------------------------------------------ registries
\* Student(id, preferences), best_unrejected defaulting to 0
Student(id, preferences) ==
    [id |-> id, preferences |-> preferences, best_unrejected |-> 0]

\* School(id, preferences, capacity), held defaulting to the empty list
School(id, preferences, capacity) ==
    [id |-> id, preferences |-> preferences, capacity |-> capacity, held |-> <<>>]

\* ------------------------------------------------------------ run_round
\* heapq.nlargest(n, iterable, key=L.index): the n elements of largest key,
\* largest first, earlier element first among equal keys; [] when n <= 0.
\* The key is computed for every element as soon as n >= 1.
\* (variant: the count of elements still to take is never decremented, so
\* the whole pool is kept as soon as n >= 1)
RECURSIVE nlargest_unbounded(_, _, _)
nlargest_unbounded(n, iterable, L) ==
    IF n <= 0 \/ iterable = <<>> THEN <<>>
    ELSE LET i == CHOOSE k \in 1..Len(iterable) :
                    /\ \A j \in 1..Len(iterable) : index(L, iterable[j]) <= index(L, iterable[k])
                    /\ \A j \in 1..(k - 1) : index(L, iterable[j]) < index(L, iterable[k])
         IN <<iterable[i]>> \o nlargest_unbounded(n, RemoveAt(iterable, i), L)

\* (variant: the count test is off by one, so only n - 1 elements are kept)
RECURSIVE nlargest_one_less(_, _, _)
nlargest_one_less(n, iterable, L) ==
    IF n <= 1 \/ iterable = <<>> THEN <<>>
    ELSE LET i == CHOOSE k \in 1..Len(iterable) :
                    /\ \A j \in 1..Len(iterable) : index(L, iterable[j]) <= index(L, iterable[k])
                    /\ \A j \in 1..(k - 1) : index(L, iterable[j]) < index(L, iterable[k])
         IN <<iterable[i]>> \o nlargest_one_less(n - 1, RemoveAt(iterable, i), L)

RECURSIVE nlargest(_, _, _)
nlargest(n, iterable, L) ==
    IF n <= 0 \/ iterable = <<>> THEN <<>>
    ELSE LET i == CHOOSE k \in 1..Len(iterable) :
                    /\ \A j \in 1..Len(iterable) : index(L, iterable[j]) <= index(L, iterable[k])
                    /\ \A j \in 1..(k - 1) : index(L, iterable[j]) < index(L, iterable[k])
         IN <<iterable[i]>> \o nlargest(n - 1, RemoveAt(iterable, i), L)

\* L.index raises ValueError inside nlargest
key_raises(n, iterable, L) == n >= 1 /\ \E i \in 1..Len(iterable) : iterable[i] \notin Range(L)

\* student.preferences[student.best_unrejected]
chosen_id(student) == student.preferences[student.best_unrejected + 1]

\* (variant: an unknown school id is passed over instead of raising)
lookup_raises_no_keyerror(student, schools) ==
    IF student.best_unrejected >= Len(student.preferences) THEN "IndexError"
    ELSE None

\* the lookup of line 67 fails for this student: "IndexError", "KeyError" or None
lookup_raises(student, schools) ==
    IF student.best_unrejected >= Len(student.preferences) THEN "IndexError"
    ELSE IF chosen_id(student) \notin DOMAIN schools THEN "KeyError"
    ELSE None

\* (variant: the pools are not seeded with the held students)
applications_unseeded(students, schools, order) ==
    [id \in DOMAIN schools |-> SelectSeq(order, LAMBDA s : chosen_id(students[s]) = id)]

\* applications after the loop of lines 66-68 (order holds the proposers in
\* the order the set to_apply is iterated)
applications(students, schools, order) ==
    [id \in DOMAIN schools |->
        schools[id].held \o SelectSeq(order, LAMBDA s : chosen_id(students[s]) = id)]

\* (variant: first come, first held: a school keeps the first `capacity`
\* entries of its pool in arrival order instead of comparing the whole pool)
new_held_first_come(schools, apps) ==
    [id \in DOMAIN schools |->
        IF schools[id].capacity <= 0 THEN <<>>
        ELSE IF Len(apps[id]) <= schools[id].capacity THEN apps[id]
        ELSE SubSeq(apps[id], 1, schools[id].capacity)]

new_held_students(schools, apps) ==
    [id \in DOMAIN schools |-> nlargest(schools[id].capacity, apps[id], schools[id].preferences)]

\* One call of run_round on a non-empty to_apply.  The result carries the
\* exception (if any), the schools after the call and the rejected students.
run_round(students, schools, order) ==
    LET bad == {i \in 1..Len(order) : lookup_raises(students[order[i]], schools) # None}
    IN IF bad # {}
       THEN LET first == CHOOSE i \in bad : \A j \in bad : i <= j
            IN [raised |-> lookup_raises(students[order[first]], schools),
                schools |-> schools, rejections |-> {}, applications |-> << >>]
       ELSE LET apps == applications(students, schools, order)
            IN IF \E id \in DOMAIN schools :
                      key_raises(schools[id].capacity, apps[id], schools[id].preferences)
               THEN [raised |-> "ValueError", schools |-> schools,
                     rejections |-> {}, applications |-> apps]
               ELSE LET new == new_held_students(schools, apps)
                    IN [raised |-> None,
                        schools |-> [id \in DOMAIN schools |->
                                        [schools[id] EXCEPT !.held = new[id]]],
                        rejections |-> UNION {Range(apps[id]) \ Range(new[id]) : id \in DOMAIN schools},
                        applications |-> apps]

\* -------------------------------------------------- deferred_acceptance
\* (variant: the cursor of a rejected student is advanced twice)
advance_twice(students, rejections) ==
    [s \in DOMAIN students |->
        IF s \in rejections
        THEN [students[s] EXCEPT !.best_unrejected = @ + 2]
        ELSE students[s]]

\* (variant: the cursor of a rejected student is left where it was)
advance_not(students, rejections) == students

\* student.best_unrejected += 1 for every rejected student
advance(students, rejections) ==
    [s \in DOMAIN students |->
        IF s \in rejections
        THEN [students[s] EXCEPT !.best_unrejected = @ + 1]
        ELSE students[s]]

exhausted(students, rejections) ==
    {s \in rejections : students[s].best_unrejected >= Len(students[s].preferences)}

\* Matching.matches: {student: school for school in schools for id in school.held}
\* (a later school overwrites an earlier one)
matches_of(schools) ==
    LET holders(s) == {id \in DOMAIN schools : s \in Range(schools[id].held)}
        keys == {s \in StudentIds \cup {DanglingStudent} : holders(s) # {}}
    IN [s \in keys |-> CHOOSE id \in holders(s) : \A other \in holders(s) : other <= id]

NoRound == [to_apply |-> {}, applications |-> << >>, before |-> << >>, rejections |-> {}]
NoMatching == [returned |-> FALSE, matches |-> << >>, unassigned |-> {}]
NotCalled == [kind |-> "not_called", student |-> 0, school |-> 0]
NoProposals == [s \in StudentIds |-> <<>>]
NoRejections == [s \in StudentIds |-> {}]
NoDesign == [at |-> "idle"]

\* the students of `order` whose proposal reached applications (line 68): all
\* of them, or those iterated before the lookup of line 67 raised
proposers(students, schools, order) ==
    LET bad == {i \in 1..Len(order) : lookup_raises(students[order[i]], schools) # None}
    IN {order[i] : i \in {j \in 1..Len(order) : \A b \in bad : j < b}}

\* the inputs: students with cursor 0, schools holding nobody
StudentPrefs == SeqsUpTo(SchoolIds \cup {DanglingSchool}, MaxPrefLen)
SchoolPrefs == {L \in SeqsUpTo(StudentIds \cup {DanglingStudent}, NumStudents) : NoDup(L)}

Init ==
    /\ \E p \in [StudentIds -> StudentPrefs] :
          student_index = [s \in StudentIds |-> Student(s, p[s])]
    /\ \E p \in [SchoolIds -> SchoolPrefs], c \in [SchoolIds -> Capacities] :
          school_index = [h \in SchoolIds |-> School(h, p[h], c[h])]
    /\ to_apply = StudentIds
    /\ unassigned = {}
    /\ pc = "loop"
    /\ rounds = 0
    /\ last = NoRound
    /\ raised = None
    /\ matching = NoMatching
    /\ pair = NotCalled
    /\ proposals = NoProposals
    /\ rejected_by = NoRejections
    /\ design = NoDesign

\* one iteration of the while loop (lines 102-114)
Round ==
    /\ pc = "loop"
    /\ to_apply # {}
    /\ \E order \in Orders(to_apply) :
          LET r == run_round(student_index, school_index, order)
              advanced == advance(student_index, r.rejections)
              gone == unassigned \cup exhausted(advanced, r.rejections)
          IN /\ rounds' = rounds + 1
             /\ last' = [to_apply |-> to_apply, applications |-> r.applications,
                         before |-> school_index, rejections |-> r.rejections]
             /\ proposals' = [s \in StudentIds |->
                                IF s \in proposers(student_index, school_index, order)
                                THEN Append(proposals[s], chosen_id(student_index[s]))
                                ELSE proposals[s]]
             /\ rejected_by' = [s \in StudentIds |->
                                  IF s \in r.rejections
                                  THEN rejected_by[s] \cup
                                       {h \in SchoolIds : s \in Range(r.applications[h])}
                                  ELSE rejected_by[s]]
             /\ IF r.raised # None
                THEN /\ pc' = "error"
                     /\ raised' = r.raised
                     /\ UNCHANGED <<student_index, school_index, to_apply, unassigned>>
                ELSE /\ school_index' = r.schools
                     /\ student_index' = advanced
                     /\ unassigned' = gone
                     /\ to_apply' = r.rejections \ gone
                     /\ UNCHANGED <<pc, raised>>
    /\ UNCHANGED <<matching, pair, design>>

\* the loop ends and the Matching is built (lines 116-122)
Return ==
    /\ pc = "loop"
    /\ to_apply = {}
    /\ matching' = [returned |-> TRUE, matches |-> matches_of(school_index),
                    unassigned |-> unassigned]
    /\ pc' = "done"
    /\ UNCHANGED <<student_index, school_index, to_apply, unassigned, rounds, last, raised, pair,
                   proposals, rejected_by, design>>

\* --------------------------------------------------- find_unstable_pair
\* precedes(L, item1, item2) = L.index(item1) < L.index(item2), and the
\* case in which one of the two L.index calls raises ValueError
precedes_raises(L, item1, item2) == item1 \notin Range(L) \/ item2 \notin Range(L)
precedes(L, item1, item2) == index(L, item1) < index(L, item2)

\* student_prefers: the ValueError is caught and answered False
student_prefers(student, school_id, m) ==
    IF precedes_raises(student.preferences, school_id, m.matches[student.id]) THEN FALSE
    ELSE precedes(student.preferences, school_id, m.matches[student.id])

\* school_prefers: `school == school` compares the comprehension's own
\* variable with itself, so assigned_students is every key of matches;
\* the list student_cmps is built in full before any() and a ValueError
\* of precedes is not caught
assigned_students(school, m) == DOMAIN m.matches

school_prefers_raises(school, student_id, m) ==
    \E a \in assigned_students(school, m) : precedes_raises(school.preferences, student_id, a)

school_prefers(school, student_id, m) ==
    \E a \in assigned_students(school, m) : precedes(school.preferences, student_id, a)

\* what the body of the loop of lines 158-163 does for one (student, school)
visit(students, schools, m, s, h) ==
    IF s \in m.unassigned THEN "next"
    ELSE IF s \notin DOMAIN m.matches THEN "KeyError"
    ELSE IF h = m.matches[s] THEN "next"
    ELSE IF ~student_prefers(students[s], h, m) THEN "next"
    ELSE IF school_prefers_raises(schools[h], s, m) THEN "ValueError"
    ELSE IF school_prefers(schools[h], s, m) THEN "return"
    ELSE "next"

\* itertools.product(students, schools): students outermost, both in the
\* order of the input lists (ascending id here); position k, 0-based
product_student(k) == (k \div NumSchools) + 1
product_school(k) == (k % NumSchools) + 1

find_unstable_pair(students, schools, m) ==
    LET stops == {k \in 0..(NumStudents * NumSchools - 1) :
                    visit(students, schools, m, product_student(k), product_school(k)) # "next"}
    IN IF stops = {} THEN [kind |-> None, student |-> 0, school |-> 0]
       ELSE LET k == CHOOSE x \in stops : \A y \in stops : x <= y
                s == product_student(k)
                h == product_school(k)
                v == visit(students, schools, m, s, h)
            IN IF v = "return" THEN [kind |-> "pair", student |-> s, school |-> h]
               ELSE [kind |-> v, student |-> 0, school |-> 0]

\* (variant: the auditor rewinds the cursors of the students it scans)
Audit_rewinding ==
    /\ pc \in {"done", "audited"}
    /\ pair' = find_unstable_pair(student_index, school_index, matching)
    /\ pc' = "audited"
    /\ student_index' = [s \in StudentIds |-> [student_index[s] EXCEPT !.best_unrejected = 0]]
    /\ UNCHANGED <<school_index, to_apply, unassigned, rounds, last, raised, matching,
                   proposals, rejected_by, design>>

\* the caller audits the Matching it was handed; it may do so again
Audit ==
    /\ pc \in {"done", "audited"}
    /\ pair' = find_unstable_pair(student_index, school_index, matching)
    /\ pc' = "audited"
    /\ UNCHANGED <<student_index, school_index, to_apply, unassigned, rounds, last, raised, matching,
                   proposals, rejected_by, design>>

Next == Round \/ Return \/ Audit

Spec == Init /\ [][Next]_vars

\* ------------------------------------------------- vocabulary of claims
\* position 0 is the most preferred: x is ranked strictly ahead of y in L
Ahead(L, x, y) == x \in Range(L) /\ y \in Range(L) /\ index(L, x) < index(L, y)

\* the students a Matching m maps to school h
MappedTo(m, h) == {s \in DOMAIN m.matches : m.matches[s] = h}

\* (a, h) is unstable in m: h is not a's assignment, a ranks h ahead of its
\* assignment (or is unassigned and ranks h at all), and h ranks a ahead of
\* at least one student it holds
Unstable(students, schools, m, a, h) ==
    /\ a \in DOMAIN m.matches => m.matches[a] # h
    /\ IF a \in DOMAIN m.matches
       THEN Ahead(students[a].preferences, h, m.matches[a])
       ELSE h \in Range(students[a].preferences)
    /\ \E b \in MappedTo(m, h) : Ahead(schools[h].preferences, a, b)

UnstablePairs(students, schools, m) ==
    {ah \in StudentIds \X SchoolIds : Unstable(students, schools, m, ah[1], ah[2])}

\* every reference of a preference list names a supplied counterpart
ReferencesResolve ==
    /\ \A s \in StudentIds : Range(student_index[s].preferences) \subseteq SchoolIds
    /\ \A h \in SchoolIds : Range(school_index[h].preferences) \subseteq StudentIds

DuplicateFree ==
    /\ \A s \in StudentIds : NoDup(student_index[s].preferences)
    /\ \A h \in SchoolIds : NoDup(school_index[h].preferences)

RECURSIVE SumOver(_, _)
SumOver(f, S) ==
    IF S = {} THEN 0 ELSE LET x == CHOOSE y \in S : TRUE IN f[x] + SumOver(f, S \ {x})

SumPrefLen == SumOver([s \in StudentIds |-> Len(student_index[s].preferences)], StudentIds)

\* the inputs of the two worked scenarios
Scenario1 ==
    /\ \A s \in {1, 2} : student_index[s].preferences = <<1, 2>>
    /\ \A h \in {1, 2} : school_index[h].preferences = <<1, 2>> /\ school_index[h].capacity = 1
Scenario2 ==
    /\ \A s \in {1, 2} : student_index[s].preferences = <<1>>
    /\ school_index[1].preferences = <<1, 2>> /\ school_index[1].capacity = 1

\* ---------------------------------------------------------------- claims

\* C1: find_unstable_pair, called on the input of deferred_acceptance and the
\* Matching it returned, returns none.
C1_AuditorAcceptsOutput == pc = "audited" => pair.kind = None

\* C2: a returned Matching has no unstable pair (definition of section 4.3).
C2_OutputStable ==
    matching.returned => UnstablePairs(student_index, school_index, matching) = {}

\* C3: after every round and in the returned Matching, a school of
\* non-negative capacity holds / is mapped to at most capacity students.
C3_CapacityRespected ==
    \A h \in SchoolIds :
        school_index[h].capacity >= 0 =>
            /\ Len(school_index[h].held) <= school_index[h].capacity
            /\ Cardinality(Range(school_index[h].held)) <= school_index[h].capacity
            /\ matching.returned => Cardinality(MappedTo(matching, h)) <= school_index[h].capacity

\* a school is full after a round in which its pool was larger than its capacity
C3_Witness ==
    /\ matching.returned
    /\ \E h \in SchoolIds :
          /\ school_index[h].capacity >= 1
          /\ Cardinality(MappedTo(matching, h)) = school_index[h].capacity
          /\ last.rejections # {}

\* C4: whenever the references resolve (preference lists of any length, 0
\* included) the run returns a Matching, and in it every student is in
\* exactly one of matches.keys() and unassigned.
C4_Coverage ==
    ReferencesResolve =>
        /\ pc # "error"
        /\ matching.returned =>
              \A s \in StudentIds :
                  (s \in DOMAIN matching.matches) # (s \in matching.unassigned)

\* C5: with resolved references and duplicate-free lists the loop reaches an
\* empty to_apply (it is not left by an exception) and run_round is called at
\* most sum-of-preference-list-lengths times.
C5_RoundsBounded ==
    (ReferencesResolve /\ DuplicateFree) => (pc # "error" /\ rounds <= SumPrefLen)

\* the matchings of the current input that respect the capacities: every
\* student is unassigned or mapped to a school that it ranks and that ranks it
AllMatchings ==
    {m \in [matches : UNION {[D -> SchoolIds] : D \in SUBSET StudentIds}, unassigned : SUBSET StudentIds] :
        /\ m.unassigned = StudentIds \ DOMAIN m.matches
        /\ \A s \in DOMAIN m.matches :
              /\ m.matches[s] \in Range(student_index[s].preferences)
              /\ s \in Range(school_index[m.matches[s]].preferences)
        /\ \A h \in SchoolIds : Cardinality(MappedTo(m, h)) <= school_index[h].capacity}

StableMatchings ==
    {m \in AllMatchings : UnstablePairs(student_index, school_index, m) = {}}

\* C6: the returned Matching is applicant-optimal: against every stable
\* matching of the same input each student's school is ranked at least as
\* high, and a student is unassigned only if it is unassigned in all of them.
C6_ApplicantOptimal ==
    matching.returned =>
        \A m \in StableMatchings : \A s \in StudentIds :
            /\ (s \in DOMAIN matching.matches /\ s \in DOMAIN m.matches) =>
                  ~Ahead(student_index[s].preferences, m.matches[s], matching.matches[s])
            /\ s \notin DOMAIN matching.matches => s \notin DOMAIN m.matches

\* the top n members of a pool by priority list L, most preferred (lowest
\* index) first: those with fewer than n pool members ranked ahead of them
TopByPriority(n, pool, L) ==
    {x \in pool : x \in Range(L) /\ Cardinality({y \in pool : Ahead(L, y, x)}) < n}

\* C7: after a round every school holds exactly the top `capacity` members of
\* its pool by its own priority list; in scenario 2 the run yields 1 -> Z
\* with unassigned = {2}.
C7_HoldsTopOfPool ==
    /\ (rounds >= 1 /\ raised = None) =>
          \A h \in SchoolIds :
              Range(school_index[h].held) =
                  TopByPriority(school_index[h].capacity, Range(last.applications[h]),
                                school_index[h].preferences)
    /\ (Scenario2 /\ matching.returned) =>
          (matching.matches = (1 :> 1) /\ matching.unassigned = {2})

\* C9: every cursor stays within 0..len(preferences) and no step of the run
\* decreases a cursor.
CursorInRange ==
    \A s \in StudentIds :
        /\ 0 <= student_index[s].best_unrejected
        /\ student_index[s].best_unrejected <= Len(student_index[s].preferences)

CursorNonDecreasing ==
    \A s \in StudentIds : student_index'[s].best_unrejected >= student_index[s].best_unrejected

C9_CursorMonotone == [](CursorInRange) /\ [][CursorNonDecreasing]_vars

\* a cursor has advanced to the end of a list of maximal length
C9_Witness ==
    \E s \in StudentIds :
        /\ Len(student_index[s].preferences) = MaxPrefLen
        /\ student_index[s].best_unrejected = MaxPrefLen
        /\ s \in unassigned

\* some preference list of the input names an id that was not supplied
HasDangling == ~ReferencesResolve

\* the cursor of student s has reached an entry that names no supplied school
ReachedDangling(s) ==
    \E i \in 1..Len(student_index[s].preferences) :
        /\ i <= student_index[s].best_unrejected + 1
        /\ student_index[s].preferences[i] \notin SchoolIds

\* C10 as claimed: any dangling reference, reached or not, on either side,
\* makes the run abort and no Matching is returned.
C10_AnyDanglingAborts == HasDangling => ~matching.returned

\* C10 as amended: the run aborts, returning no Matching, once the cursor of
\* a student reaches a preference entry that names no supplied school.
C10_ReachedDanglingAborts ==
    (\E s \in StudentIds : ReachedDangling(s)) => (pc \in {"loop", "error"} /\ ~matching.returned)

\* the run was aborted by the lookup of a dangling entry in a later round
C10_Witness ==
    /\ pc = "error"
    /\ raised = "KeyError"
    /\ rounds >= 2
    /\ \E s \in StudentIds : ReachedDangling(s) /\ student_index[s].best_unrejected >= 1

\* ------------------------------------------ the auditor called on its own
\* find_unstable_pair is an entry point of its own: the caller hands it any
\* students, schools and Matching.  Here the references resolve and the
\* Matching is complete (every student matched or unassigned, never both)
\* and within the capacities.
AuditStudentPrefs == SeqsUpTo(SchoolIds, MaxPrefLen)
AuditSchoolPrefs == {L \in SeqsUpTo(StudentIds, NumStudents) : NoDup(L)}

CompleteMatchings(schools) ==
    {m \in [returned : {TRUE},
            matches : UNION {[D -> SchoolIds] : D \in SUBSET StudentIds},
            unassigned : SUBSET StudentIds] :
        /\ m.unassigned = StudentIds \ DOMAIN m.matches
        /\ \A h \in SchoolIds : Cardinality(MappedTo(m, h)) <= schools[h].capacity}

InitAudit ==
    /\ \E p \in [StudentIds -> AuditStudentPrefs] :
          student_index = [s \in StudentIds |-> Student(s, p[s])]
    /\ \E p \in [SchoolIds -> AuditSchoolPrefs], c \in [SchoolIds -> 0..MaxCapacity] :
          school_index = [h \in SchoolIds |-> School(h, p[h], c[h])]
    /\ matching \in CompleteMatchings(school_index)
    /\ to_apply = {}
    /\ unassigned = {}
    /\ pc = "done"
    /\ rounds = 0
    /\ last = NoRound
    /\ raised = None
    /\ pair = NotCalled
    /\ proposals = NoProposals
    /\ rejected_by = NoRejections
    /\ design = NoDesign

NextAudit == Audit

SpecAudit == InitAudit /\ [][NextAudit]_vars

\* C8: on a complete matching find_unstable_pair returns a pair exactly when
\* some pair is unstable by the definition (unassigned students included),
\* and the pair it returns is unstable by the definition.
C8_AuditorMatchesDefinition ==
    pc = "audited" =>
        /\ (pair.kind = "pair") <=> (UnstablePairs(student_index, school_index, matching) # {})
        /\ pair.kind = "pair" =>
              <<pair.student, pair.school>> \in UnstablePairs(student_index, school_index, matching)

\* ------------------------------------------------------ claims on rounds
\* the students that proposed to school h in the last round
LastProposersTo(h) == Range(last.applications[h]) \ Range(last.before[h].held)

\* the last call of run_round returned (it did not raise)
RoundDone == rounds >= 1 /\ raised = None

\* C11: a student held by h before a round and not after it was displaced
\* by a student that proposed to h in that round, is held by h after it and
\* is ranked by h strictly ahead of the displaced one.
C11_DisplacedByBetter ==
    RoundDone =>
        \A h \in SchoolIds :
            \A a \in Range(last.before[h].held) \ Range(school_index[h].held) :
                \E b \in LastProposersTo(h) \cap Range(school_index[h].held) :
                    Ahead(school_index[h].preferences, b, a)

\* the schools at the positions the cursor of student s has passed
PassedBy(s) ==
    {student_index[s].preferences[i] : i \in 1..student_index[s].best_unrejected}

\* C12: a student with a duplicate-free list proposes to a given school in
\* at most one round; each rejection moved its cursor exactly one past the
\* rejecting school, and it never again proposes to or is held by a school
\* that rejected it.
C12_NoRecall ==
    \A s \in StudentIds :
        NoDup(student_index[s].preferences) =>
            /\ NoDup(proposals[s])
            /\ rejected_by[s] = PassedBy(s)
            /\ Cardinality(rejected_by[s]) = student_index[s].best_unrejected
            /\ \A h \in rejected_by[s] :
                  /\ s \notin Range(school_index[h].held)
                  /\ (pc = "loop" /\ s \in to_apply) => chosen_id(student_index[s]) # h
                  /\ matching.returned => s \notin MappedTo(matching, h)

\* a student was rejected by its first choice, proposed to its second choice
\* and is held there
C12_Witness ==
    \E s \in StudentIds :
        /\ NoDup(student_index[s].preferences)
        /\ Len(proposals[s]) = 2
        /\ rejected_by[s] = {proposals[s][1]}
        /\ s \in Range(school_index[proposals[s][2]].held)
        /\ matching.returned

\* C13: from one state and one to_apply, run_round yields the same held
\* lists and the same rejections whatever the order in which to_apply is
\* iterated; every pool is the school's held students plus all of the
\* round's proposers to it, and the new held list is drawn from that pool.
C13_OrderIndependent ==
    (pc = "loop" /\ to_apply # {}) =>
        \A o1 \in Orders(to_apply) :
            LET r1 == run_round(student_index, school_index, o1)
            IN /\ \A o2 \in Orders(to_apply) :
                     LET r2 == run_round(student_index, school_index, o2)
                     IN /\ (r1.raised = None) <=> (r2.raised = None)
                        /\ r1.raised = None =>
                              (r1.schools = r2.schools /\ r1.rejections = r2.rejections)
               /\ r1.raised = None =>
                     \A h \in SchoolIds :
                         /\ Range(r1.applications[h]) =
                               Range(school_index[h].held) \cup
                               {s \in to_apply : chosen_id(student_index[s]) = h}
                         /\ Range(r1.schools[h].held) \subseteq Range(r1.applications[h])

\* two students proposed to the same school in one round, it kept one of
\* them and rejected the other
C13_Witness ==
    /\ RoundDone
    /\ \E h \in SchoolIds :
          /\ Cardinality(LastProposersTo(h)) >= 2
          /\ Len(school_index[h].held) = 1
          /\ LastProposersTo(h) \cap last.rejections # {}

\* every student has a first choice, it is a supplied school, and every
\* school has room for, and ranks, all the students whose first choice it is
FirstChoicesOf(h) ==
    {s \in StudentIds : Len(student_index[s].preferences) >= 1
                        /\ student_index[s].preferences[1] = h}

DemandWithinCapacity ==
    /\ \A s \in StudentIds : \E h \in SchoolIds : s \in FirstChoicesOf(h)
    /\ \A h \in SchoolIds :
          /\ Cardinality(FirstChoicesOf(h)) <= school_index[h].capacity
          /\ FirstChoicesOf(h) \subseteq Range(school_index[h].preferences)

\* C14: when every school has room for the students whose first choice it
\* is (and ranks them), the run makes exactly one round, rejects nobody and
\* returns every student mapped to its first choice, all cursors still 0
\* and unassigned empty.
C14_OneRoundWhenRoom ==
    DemandWithinCapacity =>
        /\ pc # "error"
        /\ rounds <= 1
        /\ rounds = 1 => (last.rejections = {} /\ to_apply = {})
        /\ matching.returned =>
              /\ rounds = 1
              /\ matching.unassigned = {}
              /\ \A s \in StudentIds :
                    /\ s \in DOMAIN matching.matches
                    /\ matching.matches[s] = student_index[s].preferences[1]
                    /\ student_index[s].best_unrejected = 0

\* such a run has returned, with a school filled exactly to its capacity
C14_Witness ==
    /\ DemandWithinCapacity
    /\ matching.returned
    /\ \E h \in SchoolIds : Cardinality(MappedTo(matching, h)) = school_index[h].capacity
                            /\ school_index[h].capacity >= 1

\* C15: on a complete matching over resolved references find_unstable_pair
\* raises nothing (it returns a pair or none), also when a priority or
\* preference list omits a counterpart, and a pair it returns has each side
\* ranked by the other.
C15_AuditorNeverFails ==
    pc = "audited" =>
        /\ pair.kind \in {"pair", None}
        /\ pair.kind = "pair" =>
              /\ pair.school \in Range(student_index[pair.student].preferences)
              /\ pair.student \in Range(school_index[pair.school].preferences)

\* C16: a student that a school's priority list omits is never held by that
\* school nor mapped to it, and when it proposes there it is rejected and
\* moves on (its cursor passes the school); the run goes on.
C16_UnrankedRejected ==
    \A h \in SchoolIds : \A s \in StudentIds :
        (s \notin Range(school_index[h].preferences)
            /\ h \in Range(student_index[s].preferences)) =>
            /\ s \notin Range(school_index[h].held)
            /\ matching.returned => s \notin MappedTo(matching, h)
            /\ (rounds >= 1 /\ last.applications # << >> /\ s \in LastProposersTo(h)) =>
                  (raised = None /\ s \in last.rejections /\ h \in rejected_by[s])

\* a step that is a call of find_unstable_pair
AuditStep == pc \in {"done", "audited"} /\ pc' = "audited"

\* C17: a call of find_unstable_pair changes no cursor, preference list,
\* held list, capacity or field of the matching, and a second call on the
\* same inputs returns what the first returned.
C17_AuditorPure ==
    [][AuditStep =>
          /\ student_index' = student_index
          /\ school_index' = school_index
          /\ matching' = matching
          /\ pc = "audited" => pair' = pair]_vars

\* the auditor has run on registries a run has left with an advanced cursor
\* and a held student, and it returned a pair
C17_Witness ==
    /\ pc = "audited"
    /\ pair.kind = "pair"
    /\ \E s \in StudentIds : student_index[s].best_unrejected >= 1
    /\ \E h \in SchoolIds : school_index[h].held # <<>>

\* what a call of run_round leaves alone, for every iteration order
RoundFrame ==
    (pc = "loop" /\ to_apply # {}) =>
        \A order \in Orders(to_apply) :
            LET r == run_round(student_index, school_index, order)
            IN /\ r.raised # None => r.schools = school_index
               /\ \A h \in SchoolIds :
                     /\ r.schools[h].id = school_index[h].id
                     /\ r.schools[h].preferences = school_index[h].preferences
                     /\ r.schools[h].capacity = school_index[h].capacity
                     /\ (r.raised = None
                           /\ \A s \in to_apply : chosen_id(student_index[s]) # h) =>
                           /\ r.schools[h].held = school_index[h].held
                           /\ Range(school_index[h].held) \cap r.rejections = {}

\* what an iteration of the loop leaves alone: the only cursors that move
\* are those the orchestrator advances for the rejected students
IterationFrame ==
    rounds' = rounds + 1 =>
        /\ \A s \in StudentIds :
              /\ student_index'[s].id = student_index[s].id
              /\ student_index'[s].preferences = student_index[s].preferences
              /\ s \notin last'.rejections =>
                    student_index'[s].best_unrejected = student_index[s].best_unrejected
        /\ \A h \in SchoolIds :
              /\ school_index'[h].preferences = school_index[h].preferences
              /\ school_index'[h].capacity = school_index[h].capacity

\* C18: run_round changes no cursor, preference list or capacity, only held
\* lists; a school that receives no proposal in a round holds the same
\* students after it and none of them is reported rejected.
C18_RoundFrame == [](RoundFrame) /\ [][IterationFrame]_vars

\* a school that held a student received no proposal in a later round and
\* still holds it, while another school handled a proposal
C18_Witness ==
    /\ RoundDone
    /\ rounds >= 2
    /\ \E h \in SchoolIds :
          /\ last.before[h].held # <<>>
          /\ LastProposersTo(h) = {}
          /\ school_index[h].held = last.before[h].held

\* the schools that hold student s, and how often school h holds it
HoldersOf(s) == {h \in SchoolIds : s \in Range(school_index[h].held)}
TimesHeld(s, h) ==
    Cardinality({i \in DOMAIN school_index[h].held : school_index[h].held[i] = s})

\* C19: at the start of every round and at termination every student is in
\* exactly one of to_apply, unassigned, or the held list of exactly one
\* school (once); a held student is held by the school at its cursor, and a
\* student is unassigned exactly when its cursor equals the length of its
\* preference list.
C19_Partition ==
    pc \in {"loop", "done"} =>
        \A s \in StudentIds :
            LET student == student_index[s]
                places == (IF s \in to_apply THEN 1 ELSE 0)
                          + (IF s \in unassigned THEN 1 ELSE 0)
                          + Cardinality(HoldersOf(s))
            IN /\ places = 1
               /\ \A h \in HoldersOf(s) :
                     /\ TimesHeld(s, h) = 1
                     /\ student.best_unrejected < Len(student.preferences)
                     /\ chosen_id(student) = h
               /\ s \in unassigned <=>
                     student.best_unrejected = Len(student.preferences)


\* ------------------------------------------------------------- bibd.py
\* The compact string of a design, as its lines (the literal starts and
\* ends with a newline, hence the empty first and last line); a character
\* is written as its rank in "0123456789abcdefghi", which is its order
\* under < on characters.
bibd_15_3_1_str ==
    << <<>>,
       <<0, 0, 0, 0, 0, 0, 0, 1, 1, 1, 1, 1, 1, 2, 2, 2, 2, 2, 2, 3, 3, 3, 3, 4, 4, 4, 4, 5, 5, 5, 5, 6, 6, 6, 6>>,
       <<1, 3, 5, 7, 9, 11, 13, 3, 4, 7, 8, 11, 12, 3, 4, 7, 8, 11, 12, 7, 8, 9, 10, 7, 8, 9, 10, 7, 8, 9, 10, 7, 8, 9, 10>>,
       <<2, 4, 6, 8, 10, 12, 14, 5, 6, 9, 10, 13, 14, 6, 5, 10, 9, 14, 13, 11, 12, 13, 14, 12, 11, 14, 13, 13, 14, 11, 12, 14, 13, 12, 11>>,
       <<>> >>
bibd_19_9_4_str ==
    << <<>>,
       <<0, 0, 0, 0, 0, 0, 0, 0, 0, 1, 1, 1, 1, 1, 2, 2, 2, 2, 3>>,
       <<1, 1, 1, 1, 2, 3, 3, 5, 6, 2, 3, 3, 4, 4, 3, 3, 4, 4, 4>>,
       <<2, 2, 2, 5, 5, 4, 4, 7, 7, 7, 5, 5, 6, 6, 6, 6, 5, 5, 5>>,
       <<3, 3, 4, 6, 6, 7, 8, 8, 8, 8, 7, 8, 7, 8, 7, 8, 7, 8, 6>>,
       <<4, 9, 9, 10, 12, 10, 11, 9, 9, 10, 9, 11, 9, 10, 10, 9, 11, 9, 9>>,
       <<5, 10, 14, 11, 13, 12, 13, 10, 11, 13, 13, 12, 11, 12, 11, 12, 12, 10, 10>>,
       <<6, 11, 15, 14, 16, 14, 15, 12, 13, 14, 15, 14, 12, 13, 15, 14, 13, 11, 13>>,
       <<7, 12, 16, 15, 17, 16, 17, 15, 14, 17, 16, 16, 17, 15, 16, 15, 14, 16, 14>>,
       <<8, 13, 17, 18, 18, 18, 18, 17, 16, 18, 18, 17, 18, 16, 17, 18, 15, 18, 17>>,
       <<>> >>
bibd_9_4_3_str ==
    << <<>>,
       <<0, 0, 0, 0, 0, 0, 0, 0, 1, 1, 1, 1, 1, 2, 2, 2, 2, 3>>,
       <<1, 1, 1, 2, 3, 3, 5, 6, 2, 3, 3, 4, 4, 3, 3, 4, 4, 4>>,
       <<2, 2, 5, 5, 4, 4, 7, 7, 7, 5, 5, 6, 6, 6, 6, 5, 5, 5>>,
       <<3, 4, 6, 6, 7, 8, 8, 8, 8, 7, 8, 7, 8, 7, 8, 7, 8, 6>>,
       <<>> >>
bibd_8_4_3_str ==
    << <<>>,
       <<0, 0, 0, 0, 0, 0, 0, 1, 1, 1, 1, 2, 2, 3>>,
       <<1, 1, 1, 2, 2, 3, 4, 2, 2, 3, 5, 3, 4, 4>>,
       <<2, 3, 4, 3, 6, 5, 5, 3, 4, 4, 6, 5, 5, 6>>,
       <<5, 7, 6, 4, 7, 6, 7, 6, 7, 5, 7, 7, 6, 7>>,
       <<>> >>

\* str_to_blocks (lines 47-49): strip() and split() leave the non-empty
\* lines, zip(*rows) makes block j of the j-th character of every row and
\* stops at the shortest row
Min(S) == CHOOSE x \in S : \A y \in S : x <= y
str_to_blocks(bibd_str) ==
    LET rows == SelectSeq(bibd_str, LAMBDA line : line # <<>>)
    IN IF rows = <<>> THEN <<>>
       ELSE [j \in 1..Min({Len(rows[i]) : i \in DOMAIN rows}) |->
                [i \in DOMAIN rows |-> rows[i][j]]]

bibd_8_4_3 == str_to_blocks(bibd_8_4_3_str)
bibd_9_4_3 == str_to_blocks(bibd_9_4_3_str)
bibd_15_3_1 == str_to_blocks(bibd_15_3_1_str)
bibd_19_9_4 == str_to_blocks(bibd_19_9_4_str)

ALL_BIBDS == {bibd_8_4_3, bibd_9_4_3, bibd_15_3_1, bibd_19_9_4}

\* BIBDParams (lines 65-121) with its short property names
BIBDParams(b, v, k, r, lambda_) == [b |-> b, v |-> v, k |-> k, r |-> r, lambda_ |-> lambda_]
NoParams == BIBDParams(0, 0, 0, 0, 0)

\* satisfies_necessary_conditions (lines 123-141)
satisfies_necessary_conditions(self) ==
    LET v == self.v
        r == self.r
        b == self.b
        k == self.k
        lambda_ == self.lambda_
        satisfies_divisibility == v * r = b * k /\ v % k = 0
        is_balanceable == r * (k - 1) = lambda_ * (v - 1)
        satisfies_fishers_inequality == IF v > k /\ k >= 2 THEN b >= v ELSE TRUE
    IN satisfies_divisibility /\ is_balanceable /\ satisfies_fishers_inequality

\* the number of blocks that contain all the elements of S (lines 169, 173)
blocks_with(bibd, S) ==
    Cardinality({j \in DOMAIN bibd : S \subseteq Range(bibd[j])})

elements_of(bibd) == UNION {Range(bibd[j]) : j \in DOMAIN bibd}

\* from_bibd (lines 159-182); first and second are the first two elements
\* in the iteration order of the set elements (both iterators run over the
\* same unmodified set, so any_element and e1 are the same element)
from_bibd(bibd, first, second) ==
    LET elements == elements_of(bibd)
        k == Len(bibd[1])
        b == Len(bibd)
        v == Cardinality(elements)
        any_element == first
        r == blocks_with(bibd, {any_element})
        e1 == first
        e2 == second
        lambda_ == blocks_with(bibd, {e1, e2})
    IN BIBDParams(b, v, k, r, lambda_)

\* the defaultdict updates of one block (lines 196-200)
count_elements(element_memberships, block) ==
    [e \in DOMAIN element_memberships \cup Range(block) |->
        (IF e \in DOMAIN element_memberships THEN element_memberships[e] ELSE 0)
        + Cardinality({i \in DOMAIN block : block[i] = e})]

sorted_members(elt1, elt2) == IF elt1 < elt2 THEN <<elt1, elt2>> ELSE <<elt2, elt1>>

combinations(block) == {ij \in (DOMAIN block) \X (DOMAIN block) : ij[1] < ij[2]}

count_pairs(pairwise_memberships, block) ==
    LET keys == {sorted_members(block[ij[1]], block[ij[2]]) : ij \in combinations(block)}
    IN [p \in DOMAIN pairwise_memberships \cup keys |->
           (IF p \in DOMAIN pairwise_memberships THEN pairwise_memberships[p] ELSE 0)
           + Cardinality({ij \in combinations(block) :
                             sorted_members(block[ij[1]], block[ij[2]]) = p})]

\* dict.values() as a set
values(d) == {d[x] : x \in DOMAIN d}

\* the checks after the loop of is_bibd (lines 202-220)
is_bibd_verdict(element_memberships, pairwise_memberships) ==
    LET n == Cardinality(DOMAIN element_memberships)
    IN IF Cardinality(values(element_memberships)) # 1 THEN FALSE
       ELSE IF Cardinality(values(pairwise_memberships)) # 1 THEN FALSE
       ELSE IF 2 * Cardinality(DOMAIN pairwise_memberships) # n * (n - 1) THEN FALSE
       ELSE TRUE

\* the state of a design being examined
Design(at, bibd, i, element_memberships, pairwise_memberships, accepted, params, satisfies) ==
    [at |-> at, bibd |-> bibd, i |-> i,
     element_memberships |-> element_memberships,
     pairwise_memberships |-> pairwise_memberships,
     accepted |-> accepted, e1 |-> None, e2 |-> None,
     params |-> params, satisfies |-> satisfies]

\* a design of ALL_BIBDS is about to be passed to is_bibd
InitBibd ==
    /\ \E bibd \in ALL_BIBDS :
          design = Design("is_bibd", bibd, 0, <<>>, <<>>, FALSE, NoParams, FALSE)
    /\ student_index = <<>>
    /\ school_index = <<>>
    /\ to_apply = {}
    /\ unassigned = {}
    /\ pc = "bibd"
    /\ rounds = 0
    /\ last = NoRound
    /\ raised = None
    /\ matching = NoMatching
    /\ pair = NotCalled
    /\ proposals = NoProposals
    /\ rejected_by = NoRejections

deferred_acceptance_vars ==
    <<student_index, school_index, to_apply, unassigned, pc, rounds, last, raised,
      matching, pair, proposals, rejected_by>>

\* is_bibd up to its loop (lines 187-193)
is_bibd_begin ==
    /\ design.at = "is_bibd"
    /\ LET block_sizes == {Len(design.bibd[j]) : j \in DOMAIN design.bibd}
       IN IF Cardinality(block_sizes) # 1
          THEN design' = [design EXCEPT !.at = "is_bibd_returned", !.accepted = FALSE]
          ELSE design' = [design EXCEPT !.at = "is_bibd_loop"]
    /\ UNCHANGED deferred_acceptance_vars

\* one iteration of the loop over the blocks (lines 195-200)
is_bibd_block ==
    /\ design.at = "is_bibd_loop"
    /\ design.i < Len(design.bibd)
    /\ LET block == design.bibd[design.i + 1]
       IN design' = [design EXCEPT
              !.i = @ + 1,
              !.element_memberships = count_elements(@, block),
              !.pairwise_memberships = count_pairs(@, block)]
    /\ UNCHANGED deferred_acceptance_vars

\* the checks after the loop (lines 202-220)
is_bibd_end ==
    /\ design.at = "is_bibd_loop"
    /\ design.i = Len(design.bibd)
    /\ design' = [design EXCEPT
          !.at = "is_bibd_returned",
          !.accepted = is_bibd_verdict(design.element_memberships,
                                       design.pairwise_memberships)]
    /\ UNCHANGED deferred_acceptance_vars

\* BIBDParams.from_bibd(bibd) for some iteration order of the set elements
FromBibd ==
    /\ design.at = "is_bibd_returned"
    /\ \E first \in elements_of(design.bibd) :
          \E second \in elements_of(design.bibd) \ {first} :
             design' = [design EXCEPT
                 !.at = "from_bibd_returned",
                 !.e1 = first,
                 !.e2 = second,
                 !.params = from_bibd(design.bibd, first, second)]
    /\ UNCHANGED deferred_acceptance_vars

\* params.satisfies_necessary_conditions()
SatisfiesNecessaryConditions ==
    /\ design.at = "from_bibd_returned"
    /\ design' = [design EXCEPT
          !.at = "judged",
          !.satisfies = satisfies_necessary_conditions(design.params)]
    /\ UNCHANGED deferred_acceptance_vars

NextBibd ==
    \/ is_bibd_begin
    \/ is_bibd_block
    \/ is_bibd_end
    \/ FromBibd
    \/ SatisfiesNecessaryConditions

SpecBibd == InitBibd /\ [][NextBibd]_vars

\* C20: for every design of ALL_BIBDS that is_bibd accepts,
\* BIBDParams.from_bibd(design).satisfies_necessary_conditions() is true.
C20_ExistingDesignsSatisfy ==
    (design.at = "judged" /\ design.accepted) => design.satisfies

====
